---- MODULE Spec2Model ----
(***************************************************************************)
(* Capability negotiation and session lifecycle of the remote WebDriver    *)
(* client (src/webdriver.py) and its caller (src/main.py).                 *)
(*                                                                         *)
(* A capability mapping (a Python dict) is a function from a set of keys   *)
(* to values.  The order of a dict's keys is its insertion order; every    *)
(* mapping enumerated here had its keys inserted in the order KeyOrder.    *)
(***************************************************************************)
EXTENDS Naturals, Sequences, FiniteSets

\* ---------------------------------------------------------------- bounds
MaxCands == 3
MaxOptions == 2
MaxCalls == 2
MaxQuits == 2

\* ---------------------------------------------------------------- inputs
KeyOrder == <<"browserName", "pageLoadStrategy", "platform">>

KeySet == {KeyOrder[j] : j \in 1..Len(KeyOrder)}

ValuesOf(k) ==
  CASE k = "browserName" -> {"chrome", "opera"}
    [] k = "pageLoadStrategy" -> {"eager", "normal"}
    [] OTHER -> {"ANY"}

AllValues == UNION {ValuesOf(k) : k \in KeySet}

Mappings ==
  UNION {{f \in [D -> AllValues] : \A k \in D : f[k] \in ValuesOf(k)} : D \in SUBSET KeySet}

Lists(n) == UNION {[1..m -> Mappings] : m \in 0..n}

EmptyMap == [k \in {} |-> "ANY"]

\* ------------------------------------------------------- dict primitives
\* d.keys(), in insertion order
keys(d) == SelectSeq(KeyOrder, LAMBDA k : k \in DOMAIN d)

\* del d[k], for k in d
del(d, k) == [x \in (DOMAIN d) \ {k} |-> d[x]]

\* d.get(k): the value, or None
get(d, k) == IF k \in DOMAIN d THEN d[k] ELSE "None"

\* copy.deepcopy(caps): a new mapping with the same items
deepcopy(caps) == [k \in DOMAIN caps |-> caps[k]]

\* An insertion-ordered dict under construction: a sequence of <<key, value>>.
\* update({k: v}) overwrites the value of a key already present, in place,
\* and appends a new key at the end.
update(s, k, v) ==
  IF \E j \in 1..Len(s) : s[j][1] = k
  THEN [j \in 1..Len(s) |-> IF s[j][1] = k THEN <<k, v>> ELSE s[j]]
  ELSE Append(s, <<k, v>>)

ItemKeys(s) == [j \in 1..Len(s) |-> s[j][1]]

AsMap(s) ==
  [k \in {s[j][1] : j \in 1..Len(s)} |-> s[CHOOSE j \in 1..Len(s) : s[j][1] = k][2]]

\* --------------------------------------------------------- _create_caps
\* src/webdriver.py 79-95: every item of a deep copy of caps goes to
\* alwaysMatch; firstMatch is [{}].  caps itself is not touched.
_create_caps(caps) ==
  LET copied == deepcopy(caps)
      always_match == [k \in DOMAIN copied |-> copied[k]]
  IN  [alwaysMatch |-> always_match, firstMatch |-> <<EmptyMap>>]

\* -------------------------------------------------------- create_matches
\* lines 125-128: the keys of opts[i] that opts[i + 1] holds with the same value
RECURSIVE ScanKeys(_, _, _, _)
ScanKeys(samesies, a, b, ks) ==
  IF ks = <<>> THEN samesies
  ELSE LET kys == Head(ks)
           s2 == IF kys \in DOMAIN b /\ a[kys] = b[kys]
                 THEN update(samesies, kys, a[kys])
                 ELSE samesies
       IN  ScanKeys(s2, a, b, Tail(ks))

\* the guard of line 122: candidate i is compared with candidate i + 1 only
HasNext(i, opts_size) == i + 1 <= opts_size

\* lines 120-128 (indices from 1)
RECURSIVE ScanPairs(_, _, _)
ScanPairs(samesies, opts, i) ==
  IF i > Len(opts) THEN samesies
  ELSE ScanPairs(IF HasNext(i, Len(opts))
                 THEN ScanKeys(samesies, opts[i], opts[i + 1], keys(opts[i]))
                 ELSE samesies,
                 opts, i + 1)

Samesies(opts) == ScanPairs(<<>>, opts, 1)

\* lines 135-136 for one candidate: del i[k] for k in always; a missing key
\* raises KeyError and leaves the candidate as far as it was stripped
RECURSIVE DelKeys(_, _)
DelKeys(d, ks) ==
  IF ks = <<>> THEN [m |-> d, err |-> FALSE]
  ELSE IF Head(ks) \notin DOMAIN d THEN [m |-> d, err |-> TRUE]
  ELSE DelKeys(del(d, Head(ks)), Tail(ks))

\* lines 134-136: the candidates are stripped in place, in order
RECURSIVE DelAll(_, _, _)
DelAll(opts, i, ks) ==
  IF i > Len(opts) THEN [opts |-> opts, err |-> FALSE]
  ELSE LET r == DelKeys(opts[i], ks)
           o2 == [opts EXCEPT ![i] = r.m]
       IN  IF r.err THEN [opts |-> o2, err |-> TRUE] ELSE DelAll(o2, i + 1, ks)

\* lines 110-141.  opts are the mappings the options hand out; the result
\* says whether KeyError was raised, what the mappings hold afterwards and
\* the value of capabilities["capabilities"] when the call returned.
create_matches(opts) ==
  LET samesies == Samesies(opts)
      always == AsMap(samesies)
      d == DelAll(opts, 1, ItemKeys(samesies))
  IN  [raised |-> d.err,
       opts |-> d.opts,
       caps |-> IF d.err THEN [alwaysMatch |-> EmptyMap, firstMatch |-> <<>>]
                ELSE [alwaysMatch |-> always, firstMatch |-> d.opts]]

\* ------------------------------------------------- get_remote_connection
\* lines 104: the browser-specific handlers, in the order they are tried,
\* each with the browser_name of its class
candidates ==
  << [handler |-> "ChromeRemoteConnection", browser_name |-> "chrome"],
     [handler |-> "EdgeRemoteConnection", browser_name |-> "MicrosoftEdge"],
     [handler |-> "SafariRemoteConnection", browser_name |-> "safari"],
     [handler |-> "FirefoxRemoteConnection", browser_name |-> "firefox"] >>

\* lines 98-107: the first handler whose browser_name is
\* capabilities.get("browserName"), RemoteConnection when there is none
get_remote_connection(capabilities) ==
  LET hits == SelectSeq(candidates,
                        LAMBDA c : c.browser_name = get(capabilities, "browserName"))
  IN  IF hits = <<>> THEN "RemoteConnection" ELSE Head(hits).handler

\* lines 188-193: what __init__ hands to get_remote_connection and to
\* start_session: the dictionary create_matches returned for a list of
\* options, the option set's own capabilities otherwise
init_capabilities(isList, merged, single) ==
  IF isList THEN [capabilities |-> merged] ELSE single

\* ------------------------------------------------------------------ quit
\* a quit() that does not look at the state: every call sends the request,
\* and the endpoint answers the second with an error
quit_resend(state, requests) ==
  [state |-> "Terminated",
   requests |-> requests + 1,
   err |-> (state = "Terminated")]

\* quit(): nothing when the session is Terminated already; otherwise one
\* session-termination request (its transport errors are logged, not
\* raised) and the session is Terminated
quit(state, requests) ==
  [state |-> "Terminated",
   requests |-> IF state = "Terminated" THEN requests ELSE requests + 1,
   err |-> FALSE]

\* start_session(capabilities): the session is Active when the endpoint
\* accepts the request, SessionStartError is raised otherwise
start_session(accepted) ==
  [state |-> IF accepted THEN "Active" ELSE "Unstarted", err |-> ~accepted]

\* an __exit__ that returns a true value: the with statement swallows the
\* exception of its body
WebDriverExit_swallow(state, requests) ==
  LET q == quit(state, requests)
  IN  [state |-> q.state, requests |-> q.requests, err |-> q.err,
       quits |-> 1, suppresses |-> TRUE]

\* lines 223-229: __exit__ calls self.quit() and returns None, which is
\* not a true value: the with statement does not suppress the exception of
\* its body
WebDriverExit(state, requests) ==
  LET q == quit(state, requests)
  IN  [state |-> q.state, requests |-> q.requests, err |-> q.err,
       quits |-> 1, suppresses |-> FALSE]

\* ------------------------------------------------------------------ state
VARIABLES
  orig,       \* the candidates as the caller built them
  opts,       \* the candidates' mappings now (create_matches strips them in place)
  last,       \* the merge called last: "none", "_create_caps", "create_matches"
  arg,        \* the candidates given to the last call, as they were at the call
  outcome,    \* of the last call: "none", "returned", "raised"
  result,     \* the capabilities["capabilities"] the last call returned
  log,        \* outcome and result of every create_matches call, in order
  ctor,       \* WebDriver.__init__: "none", "ok", "raised"
  passed,     \* the options given to __init__: isList, caps (as at the call), url
  handler,    \* the class of self.command_executor
  session,    \* "Unstarted", "Active", "Terminated"
  block,      \* the with block: "outside", "inside", "unwinding", "left"
  exc,        \* the body of the with block raised
  propagated, \* the with statement raised the body's exception to its caller
  quitCalls,  \* calls of quit()
  exitCalls,  \* calls of quit() made by __exit__
  termReqs,   \* session-termination requests sent to the endpoint
  quitErr     \* a call of quit() raised

mvars == <<orig, opts, last, arg, outcome, result, log>>

dvars == <<ctor, passed, handler, session, block, exc, propagated,
           quitCalls, exitCalls, termReqs, quitErr>>

vars == <<mvars, dvars>>

NoCaps == [alwaysMatch |-> EmptyMap, firstMatch |-> <<>>]

NoOptions == [isList |-> FALSE, caps |-> <<>>, url |-> FALSE]

InitRest ==
  /\ opts = orig
  /\ last = "none"
  /\ arg = <<>>
  /\ outcome = "none"
  /\ result = NoCaps
  /\ log = <<>>
  /\ ctor = "none"
  /\ passed = NoOptions
  /\ handler = "none"
  /\ session = "Unstarted"
  /\ block = "outside"
  /\ exc = FALSE
  /\ propagated = FALSE
  /\ quitCalls = 0
  /\ exitCalls = 0
  /\ termReqs = 0
  /\ quitErr = FALSE

Init ==
  /\ orig \in Lists(MaxCands)
  /\ InitRest

\* _create_caps(opts[i])
CallCreateCaps ==
  \E i \in 1..Len(opts) :
    /\ last' = "_create_caps"
    /\ arg' = <<opts[i]>>
    /\ outcome' = "returned"
    /\ result' = _create_caps(opts[i])
    /\ UNCHANGED <<orig, opts, log, dvars>>

\* create_matches(options), options the whole list of candidates
CallCreateMatches ==
  /\ Len(log) < MaxCalls
  /\ LET r == create_matches(opts)
         o == IF r.raised THEN "raised" ELSE "returned"
     IN  /\ last' = "create_matches"
         /\ arg' = opts
         /\ outcome' = o
         /\ result' = r.caps
         /\ opts' = r.opts
         /\ log' = Append(log, [outcome |-> o, result |-> r.caps])
         /\ UNCHANGED <<orig, dvars>>

Next == CallCreateCaps \/ CallCreateMatches

Spec == Init /\ [][Next]_vars

\* ------------------------------------------------------------- the driver
InitDriver ==
  /\ orig \in Lists(MaxOptions)
  /\ InitRest

\* WebDriver.__init__ (lines 168-215) with a list of options
InitWithList ==
  \E url \in BOOLEAN, accepted \in BOOLEAN :
    /\ ctor = "none"
    /\ passed' = [isList |-> TRUE, caps |-> opts, url |-> url]
    /\ LET r == create_matches(opts)
           capabilities == init_capabilities(TRUE, r.caps, EmptyMap)
           s == start_session(accepted)
       IN  /\ opts' = r.opts
           /\ IF r.raised
              THEN /\ ctor' = "raised"
                   /\ UNCHANGED <<handler, session>>
              ELSE /\ handler' = IF url THEN get_remote_connection(capabilities)
                                 ELSE "given"
                   /\ session' = s.state
                   /\ ctor' = IF s.err THEN "raised" ELSE "ok"
    /\ UNCHANGED <<orig, last, arg, outcome, result, log, block, exc, propagated,
                   quitCalls, exitCalls, termReqs, quitErr>>

\* WebDriver.__init__ (lines 168-215) with one option set
InitWithOptions ==
  \E i \in 1..Len(opts), url \in BOOLEAN, accepted \in BOOLEAN :
    /\ ctor = "none"
    /\ passed' = [isList |-> FALSE, caps |-> <<opts[i]>>, url |-> url]
    /\ LET capabilities == init_capabilities(FALSE, NoCaps, opts[i])
           s == start_session(accepted)
       IN  /\ handler' = IF url THEN get_remote_connection(capabilities) ELSE "given"
           /\ session' = s.state
           /\ ctor' = IF s.err THEN "raised" ELSE "ok"
    /\ UNCHANGED <<mvars, block, exc, propagated,
                   quitCalls, exitCalls, termReqs, quitErr>>

\* with driver: ... (lines 220-221)
Enter ==
  /\ ctor = "ok"
  /\ block = "outside"
  /\ block' = "inside"
  /\ UNCHANGED <<mvars, ctor, passed, handler, session, exc, propagated,
                 quitCalls, exitCalls, termReqs, quitErr>>

\* the body of the with block ends, by returning or by raising
BodyEnds ==
  \E e \in BOOLEAN :
    /\ block = "inside"
    /\ exc' = e
    /\ block' = "unwinding"
    /\ UNCHANGED <<mvars, ctor, passed, handler, session, propagated,
                   quitCalls, exitCalls, termReqs, quitErr>>

\* __exit__ (lines 223-229), then the with statement re-raises the body's
\* exception unless __exit__ returned a true value
Exit ==
  /\ block = "unwinding"
  /\ LET x == WebDriverExit(session, termReqs)
     IN  /\ session' = x.state
         /\ termReqs' = x.requests
         /\ quitErr' = (quitErr \/ x.err)
         /\ quitCalls' = quitCalls + x.quits
         /\ exitCalls' = exitCalls + x.quits
         /\ propagated' = (exc /\ ~x.suppresses)
  /\ block' = "left"
  /\ UNCHANGED <<mvars, ctor, passed, handler, exc>>

\* driver.quit() called by the test code (src/main.py 95-97)
Teardown ==
  /\ ctor = "ok"
  /\ block # "unwinding"
  /\ quitCalls - exitCalls < MaxQuits
  /\ LET q == quit(session, termReqs)
     IN  /\ session' = q.state
         /\ termReqs' = q.requests
         /\ quitErr' = (quitErr \/ q.err)
  /\ quitCalls' = quitCalls + 1
  /\ UNCHANGED <<mvars, ctor, passed, handler, block, exc, propagated, exitCalls>>

NextDriver ==
  InitWithList \/ InitWithOptions \/ Enter \/ BodyEnds \/ Exit \/ Teardown

SpecDriver == InitDriver /\ [][NextDriver]_vars

\* ---------------------------------------------------------------- claims
SameInAll(k, cs) ==
  /\ \A j \in 1..Len(cs) : k \in DOMAIN cs[j]
  /\ \A i, j \in 1..Len(cs) : cs[i][k] = cs[j][k]

Merged(always, first) ==
  [k \in (DOMAIN always) \cup (DOMAIN first) |->
     IF k \in DOMAIN first THEN first[k] ELSE always[k]]

Returned(f) == last = f /\ outcome = "returned"

\* C1: whenever create_matches has returned for N >= 1 candidates, every key
\* that all N candidates held with one value is in alwaysMatch with that
\* value and in no firstMatch entry.
HoistsShared ==
  (Returned("create_matches") /\ Len(arg) >= 1) =>
    \A k \in KeySet :
      SameInAll(k, arg) =>
        /\ k \in DOMAIN result.alwaysMatch
        /\ result.alwaysMatch[k] = arg[1][k]
        /\ \A j \in 1..Len(result.firstMatch) : k \notin DOMAIN result.firstMatch[j]

\* C2: whenever create_matches has returned, every key of alwaysMatch was
\* held by every candidate, with the value alwaysMatch gives it.
HoistsOnlyShared ==
  Returned("create_matches") =>
    \A k \in DOMAIN result.alwaysMatch :
      \A j \in 1..Len(arg) :
        k \in DOMAIN arg[j] /\ arg[j][k] = result.alwaysMatch[k]

\* C3: a merge of one candidate, by create_matches on a one-element list or
\* by _create_caps, returns firstMatch = [{}] and alwaysMatch = the candidate.
SingleCandidate ==
  ((Returned("create_matches") \/ Returned("_create_caps")) /\ Len(arg) = 1) =>
    /\ result.firstMatch = <<EmptyMap>>
    /\ result.alwaysMatch = arg[1]

\* C4: after any call of a merge the candidates' mappings are what they
\* were before it, and all calls of create_matches on them end alike.
NoSideEffects ==
  /\ opts = orig
  /\ \A i, j \in 1..Len(log) : log[i] = log[j]

\* C5: when the with block has been left, __exit__ has called quit() exactly
\* once, and the with statement raised to its caller exactly when the body
\* raised; before that __exit__ has called nothing.
ScopedRelease ==
  /\ block = "left" => (exitCalls = 1 /\ session = "Terminated" /\ propagated = exc)
  /\ block # "left" => (exitCalls = 0 /\ ~propagated)

\* C5 witness: the body raised, __exit__ quit the session and the exception
\* reached the caller.
ScopedReleaseWitness ==
  block = "left" /\ exc /\ propagated /\ exitCalls = 1 /\ session = "Terminated"

\* C6: however often quit() has been called, the session is Terminated after
\* the first call, no call raised, and at most one session-termination
\* request was sent.
QuitIdempotent ==
  /\ termReqs <= 1
  /\ ~quitErr
  /\ quitCalls >= 1 => (session = "Terminated" /\ termReqs = 1)

\* C6 witness: quit() called twice, once by __exit__ and once by the test
\* code, with one request sent.
QuitTwiceWitness ==
  quitCalls = 2 /\ exitCalls = 1 /\ termReqs = 1 /\ session = "Terminated"

\* the capability names of the W3C WebDriver specification
W3CNames ==
  {"acceptInsecureCerts", "browserName", "browserVersion", "pageLoadStrategy",
   "platformName", "proxy", "setWindowRect", "strictFileInteractability",
   "timeouts", "unhandledPromptBehavior", "webSocketUrl"}

\* the vendor-prefixed names the test code asks for (src/main.py 14)
VendorPrefixed == {"goog:loggingPrefs"}

\* C7: the alwaysMatch _create_caps returns holds W3C capability names only.
OnlyW3CNames ==
  Returned("_create_caps") =>
    \A k \in DOMAIN result.alwaysMatch : k \in W3CNames \cup VendorPrefixed

\* C8: whenever create_matches has returned, firstMatch has one entry per
\* candidate and alwaysMatch together with firstMatch[i] is candidate i.
NothingLost ==
  Returned("create_matches") =>
    /\ Len(result.firstMatch) = Len(arg)
    /\ \A i \in 1..Len(arg) : Merged(result.alwaysMatch, result.firstMatch[i]) = arg[i]

\* C9: no call of create_matches raises.
NeverRaises == last = "create_matches" => outcome = "returned"

BrowserSpecific(b) ==
  CASE b = "chrome" -> "ChromeRemoteConnection"
    [] b = "MicrosoftEdge" -> "EdgeRemoteConnection"
    [] b = "safari" -> "SafariRemoteConnection"
    [] b = "firefox" -> "FirefoxRemoteConnection"
    [] OTHER -> "RemoteConnection"

\* C10: when __init__ was given a URL and every option set passed (alone or
\* in a list) asks for the same browserName, the handler chosen is that
\* browser's, or RemoteConnection for a name no handler has.
HandlerByBrowser ==
  (ctor = "ok" /\ passed.url /\ Len(passed.caps) >= 1) =>
    \A b \in AllValues \cup {"None"} :
      (\A j \in 1..Len(passed.caps) : get(passed.caps[j], "browserName") = b)
        => handler = BrowserSpecific(b)

====
